---------------------------- MODULE Spec2Model ----------------------------
(***************************************************************************)
(* Model of the Atleta resource handler of workout_api                     *)
(* (src/workout_api/atleta/controller.py).                                 *)
(*                                                                         *)
(* Every request runs in its own task; a task can be switched out at each  *)
(* `await` on the database session, so each handler is cut into one action *)
(* per awaited store call.  The store (tables atletas, categorias,         *)
(* centros_treinamento) is the only state the requests share.              *)
(***************************************************************************)
EXTENDS Integers, Sequences, FiniteSets, Bags, TLC

(***************************************************************************)
(* Bounds of the model.                                                    *)
(***************************************************************************)
MaxUuid     == 2    \* uuid4() calls, i.e. creates that reach construction
MaxLimit    == 2    \* largest `limit` query parameter tried
MaxOffset   == 0    \* largest `offset` query parameter tried

Uuids == 1..MaxUuid

\* the clients; each has at most one request in flight, so two of them give
\* every race between two handlers
Clients == {"c1", "c2"}

(***************************************************************************)
(* Input domains.                                                          *)
(***************************************************************************)
None   == "<None>"                      \* Python None of a str parameter
Nomes  == {"Ana", "Bia"}
Cpfs   == {"111", "222"}
CategoriaNomes == {"Scale", "Elite"}    \* no Category is named Elite
CentroNomes    == {"CT King", "CT Zeus"}\* no TrainingCenter is named CT Zeus
CategoriaIds   == {1, 9}                \* 9 is the key of no Category
NomeFilters    == {None, ""} \cup Nomes \* ?nome= gives the empty string
CpfFilters     == {None, "111"}
UnsetStr == "<unset>"                   \* value slot of a field not supplied
UnsetInt == 0

VARIABLES
    atletas,        \* table atletas: set of rows
    categorias,     \* table categorias (read only for this handler)
    centros,        \* table centros_treinamento (read only for this handler)
    inflight,       \* bag of the clients' requests being handled: locals, position
    resp,           \* response returned by the last step, NoResp if none
    nextUuid,       \* number of uuid4() values generated so far
    now,            \* the UTC clock read by datetime.utcnow()
    deleted         \* history: ids removed by a delete that returned 204

vars == <<atletas, categorias, centros, inflight, resp, nextUuid, now, deleted>>

NoResp == [status |-> 0]

Requests == BagToSet(inflight)

\* the task of request r moves on to r2, or starts as r2
Start(r2) == inflight' = inflight (+) SetToBag({r2})
Continue(r, r2) == inflight' = (inflight (-) SetToBag({r})) (+) SetToBag({r2})
End(r) == inflight' = inflight (-) SetToBag({r})

CanAccept == BagCardinality(inflight) < Cardinality(Clients)

-----------------------------------------------------------------------------
(***************************************************************************)
(* Responses.  HTTPException(status_code, detail) keeps the status and the *)
(* value its message names; an exception nothing catches is a 500.         *)
(***************************************************************************)
CategoriaNotFound(nome) ==
    [status |-> 400, detail |-> "A categoria nao foi encontrada", categoria |-> nome]

CentroNotFound(nome) ==
    [status |-> 400, detail |-> "O centro de treinamento nao foi encontrado",
     centro_treinamento |-> nome]

DuplicateKey(cpf) ==
    [status |-> 303, detail |-> "Ja existe um atleta cadastrado com o CPF", cpf |-> cpf]

NotFound(id) ==
    [status |-> 404, detail |-> "Atleta nao encontrado no id", id |-> id]

ServerError == [status |-> 500]

Created(atleta_out) == [status |-> 201, body |-> atleta_out]

Ok(atleta) == [status |-> 200, body |-> atleta]

NoContent == [status |-> 204]

-----------------------------------------------------------------------------
(***************************************************************************)
(* The store.                                                              *)
(***************************************************************************)
\* select(Model).filter_by(...).scalars().first() over rows with a pk_id
FirstByPk(rows) == CHOOSE x \in rows : \A y \in rows : x.pk_id <= y.pk_id

SelectCategoria(nome) == {c \in categorias : c.nome = nome}

SelectCentro(nome) == {c \in centros : c.nome = nome}

\* select(AtletaModel).filter_by(id=id)
SelectAtleta(id) == {a \in atletas : a.id = id}

FirstAtleta(rows) == CHOOSE x \in rows : \A y \in rows : x.id <= y.id

\* variant: the table carries no unique constraint on cpf
CpfTaken_NoConstraint(cpf, others) == FALSE

\* unique constraint on atletas.cpf, as seen by a row about to be written
CpfTaken(cpf, others) == \E a \in others : a.cpf = cpf

\* variant: the table carries no foreign keys
ForeignKeysOk_NoConstraint(row) == TRUE

\* foreign keys of atletas to categorias and centros_treinamento
ForeignKeysOk(row) ==
    /\ \E c \in categorias : c.pk_id = row.categoria_id
    /\ \E c \in centros : c.pk_id = row.centro_treinamento_id

\* the store raises IntegrityError for a row that breaks a constraint
IntegrityError(row, others) == CpfTaken(row.cpf, others) \/ ~ForeignKeysOk(row)

-----------------------------------------------------------------------------
(***************************************************************************)
(* POST /                                                                  *)
(***************************************************************************)
\* AtletaIn bodies.  nome stands for the plain columns (idade, peso, altura
\* and sexo are carried the same way and left out), cpf is the unique one.
AtletaIns ==
    [nome : Nomes, cpf : Cpfs,
     categoria : [nome : CategoriaNomes],
     centro_treinamento : [nome : CentroNomes]]

uuid4 == nextUuid + 1

utcnow == now

\* AtletaOut(id=uuid4(), created_at=datetime.utcnow(), **atleta_in.model_dump())
\* dumped without categoria and centro_treinamento, then the two keys are set
AtletaModel(atleta_in, categoria, centro_treinamento) ==
    [id |-> uuid4, created_at |-> utcnow,
     nome |-> atleta_in.nome, cpf |-> atleta_in.cpf,
     categoria_id |-> categoria.pk_id,
     centro_treinamento_id |-> centro_treinamento.pk_id]

PostsInFlight == BagCardinality([r \in {q \in Requests : q.op = "post"} |-> inflight[r]])

\* variant: the training center is looked up before the category
PostLookupCategoria_CentroFirst(atleta_in) ==
    /\ CanAccept
    /\ nextUuid + PostsInFlight < MaxUuid
    /\ LET found == SelectCategoria(atleta_in.categoria.nome) IN
       IF SelectCentro(atleta_in.centro_treinamento.nome) = {}
       THEN /\ resp' = CentroNotFound(atleta_in.centro_treinamento.nome)
            /\ UNCHANGED inflight
       ELSE IF found = {}
       THEN /\ resp' = CategoriaNotFound(atleta_in.categoria.nome)
            /\ UNCHANGED inflight
       ELSE /\ Start([op |-> "post", pc |-> "centro", atleta_in |-> atleta_in,
                      categoria |-> FirstByPk(found)])
            /\ resp' = NoResp
    /\ UNCHANGED <<atletas, categorias, centros, nextUuid, now, deleted>>

\* request arrives; first await: the category lookup
PostLookupCategoria(atleta_in) ==
    /\ CanAccept
    /\ nextUuid + PostsInFlight < MaxUuid
    /\ LET found == SelectCategoria(atleta_in.categoria.nome) IN
       IF found = {}
       THEN /\ resp' = CategoriaNotFound(atleta_in.categoria.nome)
            /\ UNCHANGED inflight
       ELSE /\ Start([op |-> "post", pc |-> "centro", atleta_in |-> atleta_in,
                      categoria |-> FirstByPk(found)])
            /\ resp' = NoResp
    /\ UNCHANGED <<atletas, categorias, centros, nextUuid, now, deleted>>

\* second await: the training-center lookup
PostLookupCentro(r) ==
    /\ r.op = "post" /\ r.pc = "centro"
    /\ LET nome == r.atleta_in.centro_treinamento.nome
           found == SelectCentro(nome) IN
       IF found = {}
       THEN /\ resp' = CentroNotFound(nome)
            /\ End(r)
       ELSE /\ Continue(r, [op |-> "post", pc |-> "commit", atleta_in |-> r.atleta_in,
                            categoria |-> r.categoria,
                            centro_treinamento |-> FirstByPk(found)])
            /\ resp' = NoResp
    /\ UNCHANGED <<atletas, categorias, centros, nextUuid, now, deleted>>

\* variant: the commit is not wrapped in try/except IntegrityError
PostCommit_NoExcept(r) ==
    /\ r.op = "post" /\ r.pc = "commit"
    /\ LET atleta_model == AtletaModel(r.atleta_in, r.categoria, r.centro_treinamento) IN
       IF IntegrityError(atleta_model, atletas)
       THEN /\ resp' = ServerError
            /\ UNCHANGED atletas
       ELSE /\ atletas' = atletas \cup {atleta_model}
            /\ resp' = Created(atleta_model)
    /\ End(r)
    /\ nextUuid' = nextUuid + 1
    /\ now' = now + 1
    /\ UNCHANGED <<categorias, centros, deleted>>

\* construction, add and the awaited commit, inside try/except IntegrityError
PostCommit(r) ==
    /\ r.op = "post" /\ r.pc = "commit"
    /\ LET atleta_model == AtletaModel(r.atleta_in, r.categoria, r.centro_treinamento) IN
       IF IntegrityError(atleta_model, atletas)
       THEN /\ resp' = DuplicateKey(r.atleta_in.cpf)
            /\ UNCHANGED atletas
       ELSE /\ atletas' = atletas \cup {atleta_model}
            /\ resp' = Created(atleta_model)
    /\ End(r)
    /\ nextUuid' = nextUuid + 1
    /\ now' = now + 1
    /\ UNCHANGED <<categorias, centros, deleted>>

-----------------------------------------------------------------------------
(***************************************************************************)
(* GET /  (paginated, filterable list)                                     *)
(***************************************************************************)
\* truth value of a str-or-None query parameter in `if nome:`
Truthy(s) == s # None /\ s # ""

\* the select built by the two `if` statements
ListQuery(nome, cpf) ==
    {a \in atletas : /\ (Truthy(nome) => a.nome = nome)
                     /\ (Truthy(cpf) => a.cpf = cpf)}

\* .scalars().all(): the rows as a list, in key order
RECURSIVE All(_)
All(rows) ==
    IF rows = {} THEN <<>>
    ELSE LET first == FirstAtleta(rows) IN <<first>> \o All(rows \ {first})

\* items[lo..hi] of a list, clipped to the list
Slice(items, lo, hi) ==
    [i \in 1..(IF hi < Len(items) THEN (IF hi < lo THEN 0 ELSE hi - lo + 1)
               ELSE (IF Len(items) < lo THEN 0 ELSE Len(items) - lo + 1))
       |-> items[lo + i - 1]]

\* the pagination library's own request parameters, left at their defaults
DefaultPage == 1
DefaultSize == 50

\* fastapi_pagination.paginate(sequence) answering Page[...]: the page is
\* cut by the library's parameters page and size
paginate(items) ==
    [status |-> 200,
     items |-> Slice(items, (DefaultPage - 1) * DefaultSize + 1,
                     DefaultPage * DefaultSize),
     total |-> Len(items), page |-> DefaultPage, size |-> DefaultSize]

\* limit and offset are declared by the handler and never read
ListAtletas(nome, cpf, limit, offset) ==
    /\ CanAccept
    /\ resp' = paginate(All(ListQuery(nome, cpf)))
    /\ UNCHANGED <<atletas, categorias, centros, inflight, nextUuid, now, deleted>>

-----------------------------------------------------------------------------
(***************************************************************************)
(* GET /{id}                                                               *)
(***************************************************************************)
GetById(id) ==
    /\ CanAccept
    /\ LET found == SelectAtleta(id) IN
       resp' = IF found = {} THEN NotFound(id) ELSE Ok(FirstAtleta(found))
    /\ UNCHANGED <<atletas, categorias, centros, inflight, nextUuid, now, deleted>>

-----------------------------------------------------------------------------
(***************************************************************************)
(* PATCH /{id}                                                             *)
(***************************************************************************)
\* one plain field, the unique field and one foreign key; the other fields
\* of the payload go through the same loop
UpdatableFields == {"nome", "cpf", "categoria_id"}

\* the sets of fields a PATCH body is tried with
FieldSets == {{}, {"nome"}, {"cpf"}, {"categoria_id"}, {"nome", "cpf"}}

\* AtletaUpdate payloads: the fields the body supplied and their values
AtletaUpdates ==
    UNION { [fields_set : {F},
             nome : IF "nome" \in F THEN Nomes ELSE {UnsetStr},
             cpf : IF "cpf" \in F THEN Cpfs ELSE {UnsetStr},
             categoria_id : IF "categoria_id" \in F THEN CategoriaIds ELSE {UnsetInt}]
            : F \in FieldSets }

\* atleta_up.model_dump(exclude_unset=True)
ModelDumpExcludeUnset(atleta_up) == [f \in atleta_up.fields_set |-> atleta_up[f]]

\* variant: the update also stamps created_at with the current time
SetAttrs_Restamp(atleta, atleta_update) ==
    LET attr(key) == IF key \in DOMAIN atleta_update THEN atleta_update[key]
                     ELSE atleta[key] IN
    [id |-> attr("id"), created_at |-> utcnow,
     nome |-> attr("nome"), cpf |-> attr("cpf"),
     categoria_id |-> attr("categoria_id"),
     centro_treinamento_id |-> attr("centro_treinamento_id")]

\* for key, value in atleta_update.items(): setattr(atleta, key, value)
SetAttrs(atleta, atleta_update) ==
    LET attr(key) == IF key \in DOMAIN atleta_update THEN atleta_update[key]
                     ELSE atleta[key] IN
    [id |-> attr("id"), created_at |-> attr("created_at"),
     nome |-> attr("nome"), cpf |-> attr("cpf"),
     categoria_id |-> attr("categoria_id"),
     centro_treinamento_id |-> attr("centro_treinamento_id")]

\* request arrives; first await: the lookup
PatchLookup(id, atleta_up) ==
    /\ CanAccept
    /\ IF SelectAtleta(id) = {}
       THEN /\ resp' = NotFound(id)
            /\ UNCHANGED inflight
       ELSE /\ Start([op |-> "patch", pc |-> "commit", id |-> id,
                      atleta_up |-> atleta_up])
            /\ resp' = NoResp
    /\ UNCHANGED <<atletas, categorias, centros, nextUuid, now, deleted>>

\* the setattr loop, then the second await: commit flushes the assigned
\* attributes to the row of the loaded object; nothing catches what the
\* flush raises
PatchCommit(r) ==
    /\ r.op = "patch" /\ r.pc = "commit"
    /\ LET found == SelectAtleta(r.id)
           atleta_update == ModelDumpExcludeUnset(r.atleta_up) IN
       IF DOMAIN atleta_update = {}
       THEN \* nothing to flush
            /\ Continue(r, [op |-> "patch", pc |-> "refresh", id |-> r.id,
                            atleta_up |-> r.atleta_up])
            /\ resp' = NoResp
            /\ UNCHANGED atletas
       ELSE IF found = {}
       THEN \* the row was deleted meanwhile: UPDATE matches no row
            /\ End(r)
            /\ resp' = ServerError
            /\ UNCHANGED atletas
       ELSE LET row == FirstAtleta(found)
                new == SetAttrs(row, atleta_update) IN
            IF IntegrityError(new, atletas \ {row})
            THEN /\ End(r)
                 /\ resp' = ServerError
                 /\ UNCHANGED atletas
            ELSE /\ atletas' = (atletas \ {row}) \cup {new}
                 /\ Continue(r, [op |-> "patch", pc |-> "refresh", id |-> r.id,
                            atleta_up |-> r.atleta_up])
                 /\ resp' = NoResp
    /\ UNCHANGED <<categorias, centros, nextUuid, now, deleted>>

\* third await: refresh re-reads the row, which is then returned
PatchRefresh(r) ==
    /\ r.op = "patch" /\ r.pc = "refresh"
    /\ LET found == SelectAtleta(r.id) IN
       resp' = IF found = {} THEN ServerError ELSE Ok(FirstAtleta(found))
    /\ End(r)
    /\ UNCHANGED <<atletas, categorias, centros, nextUuid, now, deleted>>

-----------------------------------------------------------------------------
(***************************************************************************)
(* DELETE /{id}                                                            *)
(***************************************************************************)
\* variant: the handler does not test the result of the lookup
DeleteLookup_NoCheck(id) ==
    /\ CanAccept
    /\ Start([op |-> "delete", pc |-> "commit", id |-> id])
    /\ resp' = NoResp
    /\ UNCHANGED <<atletas, categorias, centros, nextUuid, now, deleted>>

DeleteLookup(id) ==
    /\ CanAccept
    /\ IF SelectAtleta(id) = {}
       THEN /\ resp' = NotFound(id)
            /\ UNCHANGED inflight
       ELSE /\ Start([op |-> "delete", pc |-> "commit", id |-> id])
            /\ resp' = NoResp
    /\ UNCHANGED <<atletas, categorias, centros, nextUuid, now, deleted>>

\* variant: a soft delete, the row stays in the table
DeleteCommit_Soft(r) ==
    /\ r.op = "delete" /\ r.pc = "commit"
    /\ UNCHANGED atletas
    /\ deleted' = deleted \cup {r.id}
    /\ End(r)
    /\ resp' = NoContent
    /\ UNCHANGED <<categorias, centros, nextUuid, now>>

\* delete and the awaited commit; no content is returned
DeleteCommit(r) ==
    /\ r.op = "delete" /\ r.pc = "commit"
    /\ atletas' = atletas \ SelectAtleta(r.id)
    /\ deleted' = deleted \cup {r.id}
    /\ End(r)
    /\ resp' = NoContent
    /\ UNCHANGED <<categorias, centros, nextUuid, now>>

-----------------------------------------------------------------------------
Init ==
    /\ atletas = {}
    /\ categorias = {[pk_id |-> 1, nome |-> "Scale"]}
    /\ centros = {[pk_id |-> 2, nome |-> "CT King"]}
    /\ inflight = EmptyBag
    /\ resp = NoResp
    /\ nextUuid = 0
    /\ now = 0
    /\ deleted = {}

Next ==
    \/ \E atleta_in \in AtletaIns : PostLookupCategoria(atleta_in)
    \/ \E r \in Requests : PostLookupCentro(r)
    \/ \E r \in Requests : PostCommit(r)
    \/ \E nome \in NomeFilters, cpf \in CpfFilters, limit \in 1..MaxLimit,
          offset \in 0..MaxOffset : ListAtletas(nome, cpf, limit, offset)
    \/ \E id \in Uuids : GetById(id)
    \/ \E id \in Uuids, atleta_up \in AtletaUpdates : PatchLookup(id, atleta_up)
    \/ \E r \in Requests : PatchCommit(r)
    \/ \E r \in Requests : PatchRefresh(r)
    \/ \E id \in Uuids : DeleteLookup(id)
    \/ \E r \in Requests : DeleteCommit(r)

Spec == Init /\ [][Next]_vars

-----------------------------------------------------------------------------
(***************************************************************************)
(* Properties.                                                             *)
(***************************************************************************)
AtletaFields == {"id", "created_at", "nome", "cpf", "categoria_id",
                 "centro_treinamento_id"}

\* C1: in every reachable state, whatever the interleaving of the requests,
\* no two Athlete rows have the same cpf.
C1_CpfUnique == \A a, b \in atletas : a.cpf = b.cpf => a = b

\* a create has just committed while another create with the same cpf,
\* started before that commit, is waiting to commit
C1_Witness ==
    /\ resp.status = 201
    /\ \E r \in Requests : /\ r.op = "post" /\ r.pc = "commit"
                           /\ r.atleta_in.cpf = resp.body.cpf

\* C2: an operation whose commit would break cpf uniqueness (a create with
\* a cpf in use, an update setting cpf to the cpf of another Athlete) answers
\* the DuplicateKey error naming that cpf.
C2_DuplicateKeyOnConflict ==
    [][ /\ \A r \in Requests :
              (PostCommit(r) /\ CpfTaken(r.atleta_in.cpf, atletas))
                  => resp' = DuplicateKey(r.atleta_in.cpf)
        /\ \A r \in Requests :
              (/\ PatchCommit(r)
               /\ "cpf" \in r.atleta_up.fields_set
               /\ CpfTaken(r.atleta_up.cpf, atletas \ SelectAtleta(r.id))
               /\ SelectAtleta(r.id) # {})
                  => resp' = DuplicateKey(r.atleta_up.cpf) ]_vars

\* C3: a create that commits while an Athlete with its cpf exists answers
\* DuplicateKey and leaves the table atletas as it was.
C3_DuplicateCreateLeavesStore ==
    [][ \A r \in Requests :
           (PostCommit(r) /\ CpfTaken(r.atleta_in.cpf, atletas))
               => /\ resp' = DuplicateKey(r.atleta_in.cpf)
                  /\ atletas' = atletas ]_vars

\* a create was refused for its cpf and the holder of the cpf is in the table
C3_Witness ==
    /\ resp.status = 303
    /\ \E a \in atletas : a.cpf = resp.cpf

\* C4: create checks the category first: a missing category ends the request
\* with the error naming it, whether or not the training center exists, and
\* the request goes no further; with the category found, a missing training
\* center ends it with the training-center error; no Athlete is added.
C4_CategoriaBeforeCentro ==
    [][ /\ \A atleta_in \in AtletaIns :
              (/\ SelectCategoria(atleta_in.categoria.nome) = {}
               /\ PostLookupCategoria(atleta_in))
                  => /\ resp' = CategoriaNotFound(atleta_in.categoria.nome)
                     /\ inflight' = inflight
                     /\ atletas' = atletas
        /\ \A r \in Requests :
              (/\ r.op = "post"
               /\ SelectCentro(r.atleta_in.centro_treinamento.nome) = {}
               /\ PostLookupCentro(r))
                  => /\ SelectCategoria(r.atleta_in.categoria.nome) # {}
                     /\ resp' = CentroNotFound(r.atleta_in.centro_treinamento.nome)
                     /\ inflight' = inflight (-) SetToBag({r})
                     /\ atletas' = atletas ]_vars

\* a create whose category exists was refused for its training center
C4_Witness == resp = CentroNotFound("CT Zeus") /\ atletas = {}

\* C5: get, update and delete of an id that no row of atletas carries answer
\* NotFound naming the id and leave the table as it was.
C5_NotFound ==
    [][ \A id \in Uuids :
           SelectAtleta(id) = {} =>
               /\ GetById(id) => (resp' = NotFound(id) /\ atletas' = atletas)
               /\ \A atleta_up \in AtletaUpdates :
                     PatchLookup(id, atleta_up)
                         => (resp' = NotFound(id) /\ atletas' = atletas)
               /\ DeleteLookup(id) => (resp' = NotFound(id) /\ atletas' = atletas)
      ]_vars

\* an id that was never deleted, hence never created or not yet, was not found
C5_Witness ==
    /\ resp.status = 404
    /\ resp.id \notin deleted
    /\ SelectAtleta(resp.id) = {}

\* C6: an update that commits sets the supplied fields of the targeted row
\* to the supplied values and leaves its other fields and all other rows as
\* they were; no step changes the id or created_at of a row.
C6_UpdateFrame ==
    [][ /\ \A r \in Requests :
              (PatchCommit(r) /\ resp' # ServerError /\ SelectAtleta(r.id) # {}) =>
                  LET old == FirstAtleta(SelectAtleta(r.id))
                      new == FirstAtleta({a \in atletas' : a.id = r.id})
                      F == r.atleta_up.fields_set IN
                  /\ {a \in atletas' : a.id = r.id} # {}
                  /\ \A f \in F : new[f] = r.atleta_up[f]
                  /\ \A f \in AtletaFields \ F : new[f] = old[f]
                  /\ atletas' \ {new} = atletas \ {old}
        /\ \A a \in atletas, b \in atletas' :
              a.id = b.id => a.created_at = b.created_at ]_vars

\* an update of nome alone has committed on one of two stored Athletes and
\* the row carries the supplied nome
C6_Witness ==
    /\ Cardinality(atletas) = 2
    /\ \E r \in Requests :
          /\ r.op = "patch" /\ r.pc = "refresh"
          /\ r.atleta_up.fields_set = {"nome"}
          /\ \E a \in atletas : a.id = r.id /\ a.nome = r.atleta_up.nome

\* C7: an id removed by a delete is never in the table again, every later
\* get, update or delete of it answers NotFound, and a delete removes no
\* other row.
C7_DeletedStaysDeleted ==
    [][ /\ \A id \in deleted' : {a \in atletas' : a.id = id} = {}
        /\ \A id \in deleted :
              /\ GetById(id) => resp' = NotFound(id)
              /\ \A atleta_up \in AtletaUpdates :
                    PatchLookup(id, atleta_up) => resp' = NotFound(id)
              /\ DeleteLookup(id) => resp' = NotFound(id)
        /\ \A r \in Requests :
              DeleteCommit(r) => atletas' = {a \in atletas : a.id # r.id} ]_vars

\* a deleted id was asked for again, after a later create, and not found
C7_Witness ==
    /\ resp.status = 404
    /\ resp.id \in deleted
    /\ atletas # {}

\* C8: the page of a list holds at most `limit` items, namely the selected
\* Athletes after skipping the first `offset`.
C8_LimitOffsetHonoured ==
    [][ \A nome \in NomeFilters, cpf \in CpfFilters, limit \in 1..MaxLimit,
           offset \in 0..MaxOffset :
           ListAtletas(nome, cpf, limit, offset) =>
               /\ Len(resp'.items) <= limit
               /\ resp'.items = Slice(All(ListQuery(nome, cpf)),
                                      offset + 1, offset + limit) ]_vars

\* C9: the Athletes a list selects are exactly those whose nome equals the
\* nome filter when one is supplied and whose cpf equals the cpf filter when
\* one is supplied.
C9_FiltersExact ==
    \A nome \in NomeFilters, cpf \in CpfFilters :
        ListQuery(nome, cpf) =
            {a \in atletas : /\ (nome # None => a.nome = nome)
                             /\ (cpf # None => a.cpf = cpf)}

\* C10: every row of atletas references an existing Category and an existing
\* TrainingCenter, and a create that commits stores the keys of the rows
\* found by the two names of its input.
C10_References ==
    [][ /\ \A a \in atletas' :
              /\ \E c \in categorias' : c.pk_id = a.categoria_id
              /\ \E c \in centros' : c.pk_id = a.centro_treinamento_id
        /\ \A r \in Requests :
              (PostCommit(r) /\ resp'.status = 201) =>
                  /\ resp'.body \in atletas'
                  /\ resp'.body.categoria_id =
                         FirstByPk(SelectCategoria(r.atleta_in.categoria.nome)).pk_id
                  /\ resp'.body.centro_treinamento_id =
                         FirstByPk(SelectCentro(r.atleta_in.centro_treinamento.nome)).pk_id
      ]_vars

\* a create has committed and its row carries the keys of the only Category
\* and the only TrainingCenter
C10_Witness ==
    /\ resp.status = 201
    /\ resp.body \in atletas
    /\ resp.body.categoria_id = 1
    /\ resp.body.centro_treinamento_id = 2

=============================================================================
